---- MODULE Spec2Model ----
(***************************************************************************)
(* Bronze-to-Silver ETL of aang-sym/tally                                  *)
(* (src/infrastructure/lambda/bronze_to_silver/handler.py) and the Bronze  *)
(* key layout of src/infrastructure/lambda/tmdb_daily_sync/handler.py.     *)
(*                                                                         *)
(* Python values are modelled as records [t, s, n]: t is the Python type,  *)
(* s the payload of a str, n the payload of an int, or of a float counted  *)
(* in tenths (1.5 is FltV(15)).  None, NaN and <NA> are the one value Null; *)
(* Absent marks a key a raw dict does not hold.                            *)
(***************************************************************************)
EXTENDS Integers, Sequences, FiniteSets, TLC

VARIABLES
  today,              \* datetime.now() of the invocation, as YYYY-MM-DD
  event,              \* event['Records'] with the Bronze object behind each key
  idx,                \* position of lambda_handler's for loop (0 = not started)
  pc,                 \* the statement the invocation is at
  shows,              \* process_bronze_file: raw_data['results']
  initial_count,      \* process_bronze_file: len(shows)
  warnings,           \* logger.warning calls made by process_bronze_file
  normalized_shows,   \* process_bronze_file: the records normalize_show returned
  df,                 \* process_bronze_file: the DataFrame
  quality_metrics,    \* process_bronze_file: the checks dict of the quality gate
  partition,          \* process_bronze_file: data_type and partition_date
  silver,             \* the Silver bucket: objects uploaded by this invocation
  cloudwatch,         \* put_metric_data calls accepted by CloudWatch
  processed_results,  \* lambda_handler: processed_results
  response,           \* lambda_handler: the returned dict
  raised,             \* the exception lambda_handler re-raised, and where it arose
  arg,                \* argument of a function applied on its own
  ret                 \* its result

hvars == <<today, event, idx, pc, shows, initial_count, warnings, normalized_shows,
           df, quality_metrics, partition, silver, cloudwatch, processed_results,
           response, raised>>
fvars == <<arg, ret>>
vars == <<hvars, fvars>>

(***************************************************************************)
(* Bounds of the model.                                                    *)
(***************************************************************************)
MaxObjects == 2     \* objects named by one event
MaxBatch == 3       \* raw records of one Bronze object
MaxRows == 2        \* rows of a hand-built DataFrame given to enforce_schema
MaxKeyLen == 4      \* tokens of an arbitrary object key

(***************************************************************************)
(* Python values.                                                          *)
(***************************************************************************)
Null == [t |-> "null", s |-> "", n |-> 0]
Absent == [t |-> "absent", s |-> "", n |-> 0]
IntV(n) == [t |-> "int", s |-> "", n |-> n]
FltV(n) == [t |-> "float", s |-> "", n |-> n]
StrV(s) == [t |-> "str", s |-> s, n |-> 0]
EmptyList == [t |-> "list", s |-> "", n |-> 0]

\* bool(v): None, '', 0, 0.0 and [] are falsy.
Truthy(v) ==
  CASE v.t = "null" -> FALSE
    [] v.t = "str" -> v.s # ""
    [] v.t \in {"int", "float"} -> v.n # 0
    [] v.t = "list" -> v.n # 0
    [] OTHER -> FALSE

\* The numeric literals among the strings of the model: what float(s) and
\* int(s) parse.  Any other string raises ValueError.
NumericStrings == {"7", "1.5"}
ParseFloat(s) == IF s = "7" THEN FltV(70) ELSE FltV(15)
IntegerStrings == {"7"}
ParseInt(s) == IntV(7)

\* str(v) of the numbers of the model.
IntStr(n) ==
  CASE n = -1 -> "-1" [] n = 0 -> "0" [] n = 1 -> "1" [] n = 2 -> "2"
    [] n = 3 -> "3" [] n = 4 -> "4" [] n = 5 -> "5" [] n = 6 -> "6"
    [] n = 7 -> "7" [] n = 8 -> "8" [] n = 9 -> "9"
FltStr(n) ==
  IF n < 0 THEN "-" \o IntStr((0 - n) \div 10) \o "." \o IntStr((0 - n) % 10)
  ELSE IntStr(n \div 10) \o "." \o IntStr(n % 10)

\* float(v) as normalize_show calls it: "" when it succeeds, else the exception.
FloatExc(v) ==
  CASE v.t \in {"int", "float"} -> ""
    [] v.t = "str" -> IF v.s \in NumericStrings THEN "" ELSE "ValueError"
    [] OTHER -> "TypeError"
FloatOf(v) ==
  CASE v.t = "int" -> FltV(10 * v.n)
    [] v.t = "float" -> v
    [] v.t = "str" -> ParseFloat(v.s)
    [] OTHER -> Null

(***************************************************************************)
(* SILVER_SCHEMA and normalize_show.                                       *)
(***************************************************************************)
SchemaKeys ==
  <<"show_id", "title", "original_title", "popularity", "vote_average",
    "vote_count", "first_air_date", "genre_ids", "origin_country", "poster_path",
    "backdrop_path", "overview", "original_language", "ingestion_date", "data_type">>

SILVER_SCHEMA ==
  [keys |-> SchemaKeys, dtype |->
  [show_id |-> "Int64", title |-> "string", original_title |-> "string",
   popularity |-> "float64", vote_average |-> "float64", vote_count |-> "Int64",
   first_air_date |-> "string", genre_ids |-> "object", origin_country |-> "object",
   poster_path |-> "string", backdrop_path |-> "string", overview |-> "string",
   original_language |-> "string", ingestion_date |-> "string", data_type |-> "string"]]

\* The keys of the dict normalize_show builds, in the order it writes them.
NormalizedKeys ==
  <<"show_id", "title", "original_title", "vote_average", "vote_count",
    "first_air_date", "genre_ids", "origin_country", "poster_path", "backdrop_path",
    "overview", "original_language", "popularity", "ingestion_date", "data_type">>

RawKeys ==
  {"id", "name", "original_name", "vote_average", "vote_count", "first_air_date",
   "genre_ids", "origin_country", "poster_path", "backdrop_path", "overview",
   "original_language", "popularity"}

\* A raw record: a JSON object (map = TRUE, f its fields) or any other JSON value.
RawMap(f) == [map |-> TRUE, f |-> f]
NotAMap == [map |-> FALSE, f |-> [k \in RawKeys |-> Absent]]

\* dict.get(k) and dict.get(k, default)
Get(f, k) == IF f[k] = Absent THEN Null ELSE f[k]
GetOr(f, k, default) == IF f[k] = Absent THEN default ELSE f[k]

\* a or b
PyOr(a, b) == IF Truthy(a) THEN a ELSE b

NoRecord == <<>>

\* "" in exc when the dict is returned, else the exception raised.
\* ingestion_date is datetime.now().isoformat(), kept to its date.
normalize_show(raw_show) ==
  IF ~raw_show.map THEN [exc |-> "AttributeError", rec |-> NoRecord]
  ELSE
    LET f == raw_show.f
        va == GetOr(f, "vote_average", FltV(0))
    IN IF FloatExc(va) # "" THEN [exc |-> FloatExc(va), rec |-> NoRecord]
       ELSE [exc |-> "",
             rec |-> [show_id |-> Get(f, "id"),
                      title |-> PyOr(Get(f, "name"), Get(f, "original_name")),
                      original_title |-> Get(f, "original_name"),
                      vote_average |-> FloatOf(va),
                      vote_count |-> GetOr(f, "vote_count", IntV(0)),
                      first_air_date |-> Get(f, "first_air_date"),
                      genre_ids |-> GetOr(f, "genre_ids", EmptyList),
                      origin_country |-> GetOr(f, "origin_country", EmptyList),
                      poster_path |-> Get(f, "poster_path"),
                      backdrop_path |-> Get(f, "backdrop_path"),
                      overview |-> Get(f, "overview"),
                      original_language |-> Get(f, "original_language"),
                      popularity |-> GetOr(f, "popularity", FltV(0)),
                      ingestion_date |-> StrV(today),
                      data_type |-> Null]]

(***************************************************************************)
(* DataFrames: the column labels in order, and the rows, each a function   *)
(* from the column labels to values.                                       *)
(***************************************************************************)
Range(seq) == {seq[i] : i \in 1..Len(seq)}

RECURSIVE SelectIdx(_, _, _)
\* The indexes i of 1..n, in order, with keep[i].
SelectIdx(keep, i, n) ==
  IF i > n THEN <<>>
  ELSE (IF keep[i] THEN <<i>> ELSE <<>>) \o SelectIdx(keep, i + 1, n)

\* df[mask]
Filter(rows, Keep(_)) ==
  LET ix == SelectIdx([i \in 1..Len(rows) |-> Keep(rows[i])], 1, Len(rows))
  IN [j \in 1..Len(ix) |-> rows[ix[j]]]

\* pd.DataFrame(records): no record, no column.
DataFrame(records) ==
  IF records = <<>> THEN [columns |-> <<>>, rows |-> <<>>]
  ELSE [columns |-> NormalizedKeys, rows |-> records]

isna(v) == v.t = "null"
IsNumber(v) == v.t \in {"int", "float"}
\* The value as tenths, to compare an int with a float.
Tenths(v) == IF v.t = "int" THEN 10 * v.n ELSE v.n

\* series < 0 and series >= 0, element by element: False on a null.
LessThanZero(v) == IsNumber(v) /\ Tenths(v) < 0
AtLeastZero(v) == IsNumber(v) /\ Tenths(v) >= 0
\* A str or a list compared with 0 raises TypeError.
Comparable(v) == isna(v) \/ IsNumber(v)

\* drop_duplicates with keep='last'.
drop_duplicates_KeepLast(rows) ==
  LET ix == SelectIdx([i \in 1..Len(rows) |->
                         \A j \in (i + 1)..Len(rows) : rows[j].show_id # rows[i].show_id],
                      1, Len(rows))
  IN [j \in 1..Len(ix) |-> rows[ix[j]]]

\* df.drop_duplicates(subset=['show_id'], keep='first')
drop_duplicates(rows) ==
  LET ix == SelectIdx([i \in 1..Len(rows) |->
                         \A j \in 1..(i - 1) : rows[j].show_id # rows[i].show_id],
                      1, Len(rows))
  IN [j \in 1..Len(ix) |-> rows[ix[j]]]

\* The pass rate taken over the records that entered the gate's last rule: the
\* failed share instead of the passed one.
PassRate_FailedShare(final, initial) ==
  IF initial > 0 THEN [num |-> initial - final, den |-> initial]
  ELSE [num |-> 0, den |-> 1]

\* final_count / initial_count if initial_count > 0 else 0.0, as a fraction.
PassRate(final, initial) ==
  IF initial > 0 THEN [num |-> final, den |-> initial]
  ELSE [num |-> 0, den |-> 1]

NoChecks ==
  [initial_count |-> 0, missing_show_id |-> 0, missing_title |-> 0,
   invalid_popularity |-> 0, duplicates |-> 0, final_count |-> 0,
   failed_count |-> 0, pass_rate |-> PassRate(0, 0)]

Count(rows, P(_)) == Cardinality({i \in 1..Len(rows) : P(rows[i])})

\* "" in exc when (df, checks) is returned, else the exception raised.
apply_data_quality_checks(frame, initial) ==
  IF "show_id" \notin Range(frame.columns)
  THEN [exc |-> "KeyError", df |-> frame, checks |-> NoChecks]
  ELSE
    LET HasId(r) == ~isna(r.show_id)
        HasTitle(r) == ~isna(r.title)
        NegPop(r) == LessThanZero(r.popularity)
        GoodPop(r) == AtLeastZero(r.popularity)
        r1 == Filter(frame.rows, HasId)
        r2 == Filter(r1, HasTitle)
        r3 == Filter(r2, GoodPop)
        r4 == drop_duplicates(r3)
    IN IF \E i \in 1..Len(r2) : ~Comparable(r2[i].popularity)
       THEN [exc |-> "TypeError", df |-> frame, checks |-> NoChecks]
       ELSE [exc |-> "",
             df |-> [columns |-> frame.columns, rows |-> r4],
             checks |-> [initial_count |-> initial,
                         missing_show_id |-> Len(frame.rows) - Len(r1),
                         missing_title |-> Len(r1) - Len(r2),
                         invalid_popularity |-> Count(r2, NegPop),
                         duplicates |-> Len(r3) - Len(r4),
                         final_count |-> Len(r4),
                         failed_count |-> initial - Len(r4),
                         pass_rate |-> PassRate(Len(r4), initial)]]

(***************************************************************************)
(* enforce_schema.  Series.astype(dtype, errors='ignore') converts the     *)
(* whole column or, when one value cannot be converted, returns the column *)
(* as it was.                                                              *)
(***************************************************************************)
CanCast(v, dtype) ==
  CASE v.t = "null" -> TRUE
    [] dtype = "Int64" ->
         \/ v.t = "int"
         \/ v.t = "float" /\ v.n % 10 = 0
         \/ v.t = "str" /\ v.s \in IntegerStrings
    [] dtype = "float64" ->
         \/ v.t \in {"int", "float"}
         \/ v.t = "str" /\ v.s \in NumericStrings
    [] OTHER -> TRUE

Cast(v, dtype) ==
  CASE v.t = "null" -> Null
    [] dtype = "Int64" ->
         (CASE v.t = "float" -> IntV(v.n \div 10)
            [] v.t = "str" -> ParseInt(v.s)
            [] OTHER -> v)
    [] dtype = "float64" -> FloatOf(v)
    [] OTHER ->
         (CASE v.t = "int" -> StrV(IntStr(v.n))
            [] v.t = "float" -> StrV(FltStr(v.n))
            [] v.t = "list" -> StrV("[]")
            [] OTHER -> v)

astype(column, dtype) ==
  IF \A i \in 1..Len(column) : CanCast(column[i], dtype)
  THEN [i \in 1..Len(column) |-> Cast(column[i], dtype)]
  ELSE column

\* The missing columns added, but no reordering and no dropping of the others.
enforce_schema_KeepsColumns(frame, schema) ==
  LET have == Range(frame.columns)
      want == Range(schema.keys)
      ix == SelectIdx([i \in 1..Len(schema.keys) |-> schema.keys[i] \notin have],
                      1, Len(schema.keys))
  IN [columns |-> frame.columns \o [j \in 1..Len(ix) |-> schema.keys[ix[j]]],
      rows |-> [i \in 1..Len(frame.rows) |->
                  [c \in have \cup want |->
                     IF c \in have THEN frame.rows[i][c] ELSE Null]]]

enforce_schema(frame, schema) ==
  LET have == Range(frame.columns)
      want == Range(schema.keys)
      \* df[col] = None for every schema column the frame lacks
      filled == [i \in 1..Len(frame.rows) |->
                   [c \in have \cup want |->
                      IF c \in have THEN frame.rows[i][c] ELSE Null]]
      \* df = df[list(schema.keys())]
      Column(c) == [i \in 1..Len(filled) |-> filled[i][c]]
      Typed(c) == IF schema.dtype[c] \in {"Int64", "float64", "string"}
                  THEN astype(Column(c), schema.dtype[c])
                  ELSE Column(c)
  IN [columns |-> schema.keys,
      rows |-> [i \in 1..Len(filled) |-> [c \in want |-> Typed(c)[i]]]]

(***************************************************************************)
(* Object keys are sequences of tokens.  A token is a run of word          *)
(* characters (\w: WordTokens), a date \d{4}-\d{2}-\d{2}, or a run that    *)
(* holds a character outside \w ("/", "-", "dt=" for its "=", ".json").    *)
(***************************************************************************)
WordTokens == {"shows", "x", "bronze", "tmdb", "popular_", "trending_", "airing_today", "top", "rated"}
DateTokens == {"2024-03-01", "2023-12-31"}

RECURSIVE Concat(_)
Concat(tokens) ==
  IF tokens = <<>> THEN "" ELSE Head(tokens) \o Concat(Tail(tokens))

\* re.search(r'shows/(\w+)/', key) matches from token i, the group ending before j.
ShowsMatch(key, i, j) ==
  /\ i + 3 <= j /\ j <= Len(key)
  /\ key[i] = "shows" /\ key[i + 1] = "/" /\ key[j] = "/"
  /\ \A k \in (i + 2)..(j - 1) : key[k] \in WordTokens

\* The last match taken instead of the first.
extract_data_type_Rightmost(key) ==
  LET starts == {i \in 1..Len(key) : \E j \in 1..Len(key) : ShowsMatch(key, i, j)}
  IN IF starts = {} THEN "unknown"
     ELSE LET i == CHOOSE a \in starts : \A b \in starts : a >= b
              j == CHOOSE e \in 1..Len(key) : ShowsMatch(key, i, e)
          IN Concat(SubSeq(key, i + 2, j - 1))

extract_data_type(key) ==
  LET starts == {i \in 1..Len(key) : \E j \in 1..Len(key) : ShowsMatch(key, i, j)}
  IN IF starts = {} THEN "unknown"
     ELSE LET i == CHOOSE a \in starts : \A b \in starts : a <= b
              j == CHOOSE e \in 1..Len(key) : ShowsMatch(key, i, e)
          IN Concat(SubSeq(key, i + 2, j - 1))

\* re.search(r'dt=(\d{4}-\d{2}-\d{2})', key), else datetime.now().strftime('%Y-%m-%d')
extract_partition_date(key) ==
  LET starts == {i \in 1..(Len(key) - 1) : key[i] = "dt=" /\ key[i + 1] \in DateTokens}
  IN IF starts = {} THEN today
     ELSE key[(CHOOSE a \in starts : \A b \in starts : a <= b) + 1]

\* tmdb_daily_sync: f"bronze/tmdb/shows/{data_type}/dt={date_partition}/{execution_id}.json"
store_to_bronze_key(data_type, date_partition, execution_id) ==
  <<"bronze", "/", "tmdb", "/", "shows", "/">> \o data_type
    \o <<"/", "dt=", date_partition, "/">> \o execution_id \o <<".json">>

(***************************************************************************)
(* process_bronze_file and lambda_handler.                                 *)
(***************************************************************************)
NoPartition == [data_type |-> "", partition_date |-> ""]
NoException == [step |-> "", exc |-> ""]
NoResponse == [statusCode |-> 0, files_processed |-> 0, results |-> <<>>]
NoFrame == [columns |-> <<>>, rows |-> <<>>]

\* f"silver/shows/{data_type}/dt={partition_date}/data.parquet"
SilverKey(data_type, partition_date) ==
  "silver/shows/" \o data_type \o "/dt=" \o partition_date \o "/data.parquet"

\* The empty-batch test left out.
NoShows_Never(s) == FALSE

\* if not shows
NoShows(s) == s = <<>>

\* raw_data.get('results', []) of a parsed JSON object
Results(body) == IF body.has_results THEN body.results ELSE <<>>

RECURSIVE NormalizeLoop(_, _)
\* The for loop over shows: exc is the exception that left the loop, if any.
NormalizeLoop(rest, acc) ==
  IF rest = <<>> THEN acc
  ELSE LET show == Head(rest)
           r == normalize_show(show)
       IN IF r.exc = ""
          THEN NormalizeLoop(Tail(rest), [acc EXCEPT !.records = Append(@, r.rec)])
          \* except Exception: logger.warning(f"... {show.get('id')} ...")
          ELSE IF ~show.map
          THEN [acc EXCEPT !.exc = "AttributeError"]
          ELSE NormalizeLoop(Tail(rest), [acc EXCEPT !.warned = @ + 1])

\* The upload made before the step that fails.
write_to_silver_UploadFirst(store, frame, key, src, ok) ==
  {o \in store : o.key # key} \cup {[key |-> key, df |-> frame, src |-> src]}

\* write_to_silver: to_parquet to a temporary file, then s3.upload_file.
write_to_silver(store, frame, key, src, ok) ==
  IF ok THEN {o \in store : o.key # key} \cup {[key |-> key, df |-> frame, src |-> src]}
  ELSE store

\* The MetricData of publish_quality_metrics.
publish_quality_metrics(metrics, data_type, date, src) ==
  [namespace |-> "Tally/DataQuality", src |-> src, data_type |-> data_type,
   DataQualityPassRate |-> [num |-> metrics.pass_rate.num * 100,
                            den |-> metrics.pass_rate.den],
   RecordsProcessed |-> metrics.final_count,
   RecordsFailed |-> metrics.failed_count]

ResetLocals ==
  /\ shows' = <<>>
  /\ initial_count' = 0
  /\ normalized_shows' = <<>>
  /\ df' = NoFrame
  /\ quality_metrics' = NoChecks
  /\ partition' = NoPartition

\* An exception leaves process_bronze_file; lambda_handler logs it and re-raises.
Raise(step, exc) ==
  /\ pc' = "raised"
  /\ raised' = [step |-> step, exc |-> exc]
  /\ UNCHANGED <<today, event, idx, shows, initial_count, warnings, normalized_shows,
                 df, quality_metrics, partition, silver, cloudwatch,
                 processed_results, response, fvars>>

\* for record in event['Records']: the next record.  The keys of the model hold
\* no "%" and no "+", which unquote_plus leaves as they are.
NextRecord ==
  /\ pc = "for"
  /\ idx < Len(event)
  /\ idx' = idx + 1
  /\ pc' = "get_object"
  /\ UNCHANGED <<today, event, shows, initial_count, warnings, normalized_shows, df,
                 quality_metrics, partition, silver, cloudwatch, processed_results,
                 response, raised, fvars>>

\* the loop is over: return statusCode 200
ReturnOk ==
  /\ pc = "for"
  /\ idx = Len(event)
  /\ pc' = "returned"
  /\ response' = [statusCode |-> 200,
                  files_processed |-> Len(processed_results),
                  results |-> processed_results]
  /\ UNCHANGED <<today, event, idx, shows, initial_count, warnings, normalized_shows,
                 df, quality_metrics, partition, silver, cloudwatch,
                 processed_results, raised, fvars>>

\* s3.get_object, json.loads, raw_data.get('results', []) and the empty-batch return
GetObject ==
  /\ pc = "get_object"
  /\ \E ok \in BOOLEAN :
       LET body == event[idx].body
       IN IF ~ok THEN Raise("get_object", "ClientError")
          ELSE IF body.kind = "invalid" THEN Raise("get_object", "JSONDecodeError")
          ELSE IF body.kind = "array" THEN Raise("get_object", "AttributeError")
          ELSE IF NoShows(Results(body))
          THEN /\ warnings' = warnings + 1
               /\ processed_results' =
                    Append(processed_results,
                           [records_processed |-> 0,
                            quality_pass_rate |-> PassRate(0, 0),
                            silver_key |-> ""])
               /\ pc' = "for"
               /\ UNCHANGED <<today, event, idx, shows, initial_count,
                              normalized_shows, df, quality_metrics, partition,
                              silver, cloudwatch, response, raised, fvars>>
          ELSE /\ shows' = Results(body)
               /\ initial_count' = Len(Results(body))
               /\ pc' = "normalize"
               /\ UNCHANGED <<today, event, idx, warnings, normalized_shows, df,
                              quality_metrics, partition, silver, cloudwatch,
                              processed_results, response, raised, fvars>>

\* the normalization loop and pd.DataFrame(normalized_shows)
Normalize ==
  /\ pc = "normalize"
  /\ LET r == NormalizeLoop(shows, [exc |-> "", records |-> <<>>, warned |-> 0])
     IN IF r.exc # "" THEN Raise("normalize", r.exc)
        ELSE /\ normalized_shows' = r.records
             /\ warnings' = warnings + r.warned
             /\ df' = DataFrame(r.records)
             /\ pc' = "quality"
             /\ UNCHANGED <<today, event, idx, shows, initial_count, quality_metrics,
                            partition, silver, cloudwatch, processed_results,
                            response, raised, fvars>>

\* df, quality_metrics = apply_data_quality_checks(df, initial_count)
Quality ==
  /\ pc = "quality"
  /\ LET g == apply_data_quality_checks(df, initial_count)
     IN IF g.exc # "" THEN Raise("quality", g.exc)
        ELSE /\ df' = g.df
             /\ quality_metrics' = g.checks
             /\ pc' = "schema"
             /\ UNCHANGED <<today, event, idx, shows, initial_count, warnings,
                            normalized_shows, partition, silver, cloudwatch,
                            processed_results, response, raised, fvars>>

\* enforce_schema, extract_partition_date and extract_data_type
Schema ==
  /\ pc = "schema"
  /\ df' = enforce_schema(df, SILVER_SCHEMA)
  /\ partition' = [data_type |-> extract_data_type(event[idx].key),
                   partition_date |-> extract_partition_date(event[idx].key)]
  /\ pc' = "write"
  /\ UNCHANGED <<today, event, idx, shows, initial_count, warnings, normalized_shows,
                 quality_metrics, silver, cloudwatch, processed_results, response,
                 raised, fvars>>

\* write_to_silver(df, bucket, silver_key)
Write ==
  /\ pc = "write"
  /\ \E ok \in BOOLEAN :
       LET key == SilverKey(partition.data_type, partition.partition_date)
       IN IF ~ok
          THEN /\ silver' = write_to_silver(silver, df, key, idx, FALSE)
               /\ pc' = "raised"
               /\ raised' = [step |-> "write", exc |-> "ClientError"]
               /\ UNCHANGED <<today, event, idx, shows, initial_count, warnings,
                              normalized_shows, df, quality_metrics, partition,
                              cloudwatch, processed_results, response, fvars>>
          ELSE /\ silver' = write_to_silver(silver, df, key, idx, TRUE)
               /\ pc' = "metrics"
               /\ UNCHANGED <<today, event, idx, shows, initial_count, warnings,
                              normalized_shows, df, quality_metrics, partition,
                              cloudwatch, processed_results, response, raised, fvars>>

\* publish_quality_metrics and the return of process_bronze_file
Metrics ==
  /\ pc = "metrics"
  /\ \E ok \in BOOLEAN :
       IF ~ok THEN Raise("metrics", "ClientError")
       ELSE /\ cloudwatch' =
                 Append(cloudwatch,
                        publish_quality_metrics(quality_metrics, partition.data_type,
                                                partition.partition_date, idx))
            /\ processed_results' =
                 Append(processed_results,
                        [records_processed |-> Len(df.rows),
                         quality_pass_rate |-> quality_metrics.pass_rate,
                         silver_key |-> SilverKey(partition.data_type,
                                                  partition.partition_date)])
            /\ pc' = "for"
            /\ ResetLocals
            /\ UNCHANGED <<today, event, idx, warnings, silver, response, raised, fvars>>

Next == NextRecord \/ ReturnOk \/ GetObject \/ Normalize \/ Quality \/ Schema
          \/ Write \/ Metrics

(***************************************************************************)
(* The inputs the specifications draw from.                                *)
(***************************************************************************)
Todays == {"2024-03-01", "2026-11-04"}

SeqsUpTo(S, n) == UNION {[1..k -> S] : k \in 0..n}

\* A raw TMDB record with the given id, name, popularity and vote_average.
Raw(id, name, popularity, vote_average) ==
  RawMap([k \in RawKeys |->
            CASE k = "id" -> id
              [] k = "name" -> name
              [] k = "popularity" -> popularity
              [] k = "vote_average" -> vote_average
              [] OTHER -> Absent])

ShowA == Raw(IntV(1), StrV("A"), FltV(15), FltV(70))
ShowB == Raw(IntV(1), StrV("B"), Absent, Absent)
ShowC == Raw(IntV(2), StrV("C"), IntV(0), IntV(7))
ShowNoId == Raw(Absent, StrV("D"), FltV(15), Absent)
ShowNoTitle == Raw(IntV(3), Absent, FltV(15), Absent)
ShowNegativePopularity == Raw(IntV(4), StrV("E"), FltV(-10), Absent)
ShowNullPopularity == Raw(IntV(5), StrV("F"), Null, Absent)
ShowTextPopularity == Raw(IntV(6), StrV("G"), StrV("high"), Absent)
ShowNullVote == Raw(IntV(7), StrV("H"), FltV(15), Null)
ShowTextVote == Raw(IntV(8), StrV("I"), FltV(15), StrV("n/a"))

RawShows ==
  {ShowA, ShowB, ShowC, ShowNoId, ShowNoTitle, ShowNegativePopularity,
   ShowNullPopularity, ShowTextPopularity, ShowNullVote, ShowTextVote, NotAMap}

JsonObject(results) == [kind |-> "object", has_results |-> TRUE, results |-> results]
JsonNoResults == [kind |-> "object", has_results |-> FALSE, results |-> <<>>]
JsonArray == [kind |-> "array", has_results |-> FALSE, results |-> <<>>]
NotJson == [kind |-> "invalid", has_results |-> FALSE, results |-> <<>>]

BronzeKey == store_to_bronze_key(<<"popular_", "shows">>, "2024-03-01", <<"x">>)
OtherKey == <<"x", ".json">>

\* One Bronze object with any batch of at most MaxBatch raw records.
FileEvents ==
  {<<[key |-> k, body |-> JsonObject(b)]>> :
     k \in {BronzeKey, OtherKey}, b \in SeqsUpTo(RawShows, MaxBatch)}

\* Up to MaxObjects Bronze objects of a few kinds.
HandlerObjects ==
  {[key |-> k, body |-> b] :
     k \in {BronzeKey, OtherKey},
     b \in {NotJson, JsonArray, JsonNoResults, JsonObject(<<>>),
            JsonObject(<<ShowA, ShowC>>), JsonObject(<<ShowNullVote, ShowA>>)}}
HandlerEvents == SeqsUpTo(HandlerObjects, MaxObjects) \ {<<>>}

InitLocals ==
  /\ idx = 0
  /\ shows = <<>>
  /\ initial_count = 0
  /\ warnings = 0
  /\ normalized_shows = <<>>
  /\ df = NoFrame
  /\ quality_metrics = NoChecks
  /\ partition = NoPartition
  /\ silver = {}
  /\ cloudwatch = <<>>
  /\ processed_results = <<>>
  /\ response = NoResponse
  /\ raised = NoException

\* lambda_handler invoked with an event of several objects.
Init ==
  /\ today \in Todays
  /\ event \in HandlerEvents
  /\ pc = "for"
  /\ InitLocals
  /\ arg = <<>>
  /\ ret = <<>>

Spec == Init /\ [][Next]_vars

\* lambda_handler invoked with one object, of any content within the bounds.
InitFile ==
  /\ today \in Todays
  /\ event \in FileEvents
  /\ pc = "for"
  /\ InitLocals
  /\ arg = <<>>
  /\ ret = <<>>

SpecFile == InitFile /\ [][Next]_vars

(***************************************************************************)
(* Properties of process_bronze_file and lambda_handler.                   *)
(***************************************************************************)
AfterGate == pc \in {"schema", "write", "metrics"}
WrittenBy(i) == {o \in silver : o.src = i}
EmptyBatch(body) ==
  body.kind = "object" /\ (~body.has_results \/ Len(body.results) = 0)

\* C1: records that fail normalization (a raw record that is not a map, or
\* every record of the batch) are dropped and the batch goes on: neither the
\* normalization loop nor the quality gate raises because of them.
C1_RecordFailuresDoNotAbortTheBatch ==
  (pc = "raised" /\ \E i \in 1..Len(shows) : normalize_show(shows[i]).exc # "")
    => /\ raised.step # "normalize"
       /\ ~(raised.step = "quality" /\ raised.exc = "KeyError")

\* C2 as stated: once processing of an object has failed, at whatever step,
\* no Silver object written for it is in the bucket.
C2_NoOutputForFailedObject ==
  pc = "raised" => WrittenBy(idx) = {}

\* C2 as amended: an object whose processing failed at the read, the parse,
\* a transformation or the output write has no Silver object; the write is
\* followed only by the metrics emission, and an object that fails there has
\* its output committed.
C2_NoOutputUnlessMetricsFailed ==
  /\ (pc = "raised" /\ raised.step # "metrics") => WrittenBy(idx) = {}
  /\ (pc = "raised" /\ raised.step = "metrics") => WrittenBy(idx) # {}
  /\ pc \in {"get_object", "normalize", "quality", "schema", "write"}
       => WrittenBy(idx) = {}

C2_FailedAtWrite ==
  pc = "raised" /\ raised.step = "write" /\ idx = 2 /\ WrittenBy(1) # {}

\* C3: each counter of the quality gate is the number of records its rule
\* removed, so the four counters and final_count add up to the number of
\* records that entered the gate.
C3_CountersAccountForEveryRecord ==
  AfterGate =>
    quality_metrics.missing_show_id + quality_metrics.missing_title
      + quality_metrics.invalid_popularity + quality_metrics.duplicates
      + quality_metrics.final_count = Len(normalized_shows)

PassedRules(r) ==
  /\ r.show_id.t # "null"
  /\ r.title.t # "null"
  /\ r.popularity.t \in {"int", "float"} /\ r.popularity.n >= 0
FirstOfItsId ==
  {i \in 1..Len(normalized_shows) :
     /\ PassedRules(normalized_shows[i])
     /\ \A j \in 1..(i - 1) :
          PassedRules(normalized_shows[j])
            => normalized_shows[j].show_id # normalized_shows[i].show_id}

\* C4: the gate's output holds one record per show_id, the first of that
\* show_id in input order among those that passed rules 1-3, and the
\* survivors keep their input order.
C4_DeduplicationIsStable ==
  pc = "schema" =>
    /\ \A a, b \in 1..Len(df.rows) :
         a # b => df.rows[a].show_id # df.rows[b].show_id
    /\ \E f \in [1..Len(df.rows) -> 1..Len(normalized_shows)] :
         /\ \A a, b \in 1..Len(df.rows) : a < b => f[a] < f[b]
         /\ {f[a] : a \in 1..Len(df.rows)} = FirstOfItsId
         /\ \A a \in 1..Len(df.rows) : df.rows[a] = normalized_shows[f[a]]

C4_DuplicateRemoved ==
  /\ pc = "schema"
  /\ Len(df.rows) >= 2
  /\ \E i, j \in 1..Len(normalized_shows) :
       /\ i < j
       /\ normalized_shows[i].show_id = normalized_shows[j].show_id
       /\ normalized_shows[i] # normalized_shows[j]
       /\ \E a \in 1..Len(df.rows) : df.rows[a] = normalized_shows[i]

\* C5: with initial_count the number of raw records seen, the report has
\* failed_count = initial_count - final_count and
\* pass_rate = final_count / initial_count, in [0.0, 1.0]; an empty batch
\* reports the pass rate 0.0.
C5_QualityReport ==
  /\ AfterGate =>
       /\ quality_metrics.initial_count = Len(shows)
       /\ quality_metrics.final_count = Len(df.rows)
       /\ quality_metrics.failed_count = Len(shows) - Len(df.rows)
       /\ quality_metrics.pass_rate.den > 0
       /\ quality_metrics.pass_rate.num * Len(shows)
            = Len(df.rows) * quality_metrics.pass_rate.den
       /\ 0 <= quality_metrics.pass_rate.num
       /\ quality_metrics.pass_rate.num <= quality_metrics.pass_rate.den
  /\ \A i \in 1..Len(processed_results) :
       LET rate == processed_results[i].quality_pass_rate
       IN /\ rate.den > 0 /\ 0 <= rate.num /\ rate.num <= rate.den
          /\ Len(Results(event[i].body)) = 0 => rate.num = 0

C5_LossAcrossThePipeline ==
  /\ pc = "schema"
  /\ Len(normalized_shows) < Len(shows)
  /\ 0 < Len(df.rows)
  /\ Len(df.rows) < Len(normalized_shows)

IsNumeric(v) == v.t \in {"int", "float"}
AsTenths(v) == IF v.t = "int" THEN 10 * v.n ELSE v.n
\* out is the number raw when raw is a number, else 0.0 (an int that equals
\* the raw number is accepted: the DataFrame column makes it a float).
CoercedToFloat(raw, out) ==
  /\ IsNumeric(out)
  /\ IsNumeric(raw) => AsTenths(out) = AsTenths(raw)
  /\ ~IsNumeric(raw) => out = FltV(0)

\* C7: normalize_show succeeds on every raw record that is a map, with
\* popularity and vote_average floats (the raw number, or 0.0 when the raw
\* field is absent, null or not a number), vote_count 0 when absent and
\* genre_ids and origin_country empty when absent.
C7_NormalizeCoercesAndDefaults ==
  (pc = "quality" /\ \A i \in 1..Len(shows) : shows[i].map) =>
    /\ Len(normalized_shows) = Len(shows)
    /\ \A i \in 1..Len(normalized_shows) :
         /\ CoercedToFloat(shows[i].f["popularity"], normalized_shows[i].popularity)
         /\ CoercedToFloat(shows[i].f["vote_average"], normalized_shows[i].vote_average)
         /\ shows[i].f["vote_count"] = Absent
              => normalized_shows[i].vote_count = IntV(0)
         /\ shows[i].f["genre_ids"] = Absent
              => normalized_shows[i].genre_ids = EmptyList
         /\ shows[i].f["origin_country"] = Absent
              => normalized_shows[i].origin_country = EmptyList

\* C9: an object whose results array is empty or absent yields the result
\* records_processed = 0, quality_pass_rate = 0.0 without an error of its
\* own, writes no output and emits no metrics; lambda_handler counts it in
\* files_processed and goes on.
C9_EmptyBatchShortCircuits ==
  /\ \A i \in 1..Len(event) :
       EmptyBatch(event[i].body) =>
         /\ i <= Len(processed_results) =>
              /\ processed_results[i].records_processed = 0
              /\ processed_results[i].quality_pass_rate = [num |-> 0, den |-> 1]
              /\ processed_results[i].silver_key = ""
         /\ WrittenBy(i) = {}
         /\ \A k \in 1..Len(cloudwatch) : cloudwatch[k].src # i
         /\ idx = i => pc \in {"get_object", "for", "returned", "raised"}
         /\ (idx = i /\ pc = "raised") => raised = [step |-> "get_object", exc |-> "ClientError"]
         /\ (idx > i \/ (idx = i /\ pc \in {"for", "returned"}))
              => Len(processed_results) >= i
  /\ pc = "returned" =>
       /\ response.statusCode = 200
       /\ response.files_processed = Len(event)

C9_EmptyThenNext ==
  /\ pc = "returned"
  /\ Len(event) = 2
  /\ EmptyBatch(event[1].body)
  /\ WrittenBy(2) # {}

\* C10: every record of a written Silver object has a data_type, the
\* category of the object's output path.
C10_DataTypeStamped ==
  \A o \in silver :
    \A i \in 1..Len(o.df.rows) :
      /\ o.df.rows[i].data_type # Null
      /\ \E d \in Todays \cup DateTokens :
           o.key = SilverKey(o.df.rows[i].data_type.s, d)

(***************************************************************************)
(* enforce_schema applied on its own to frames with missing, extra and     *)
(* misordered columns and values of every type.                            *)
(***************************************************************************)
CellValues == {Null, IntV(1), FltV(15), FltV(20), StrV("7"), StrV("a")}
FewValues == {Null, IntV(1), StrV("a")}

FramesOver(columns, values) ==
  {[columns |-> columns, rows |-> r] :
     r \in SeqsUpTo([Range(columns) -> values], MaxRows)}

NormalizedRecords ==
  {normalize_show(r).rec : r \in {x \in RawShows : normalize_show(x).exc = ""}}

SchemaInputs ==
  {NoFrame}
    \cup FramesOver(<<"show_id">>, CellValues)
    \cup FramesOver(<<"popularity">>, CellValues)
    \cup FramesOver(<<"title">>, CellValues)
    \cup FramesOver(<<"extra">>, CellValues)
    \cup FramesOver(<<"title", "show_id">>, FewValues)
    \cup FramesOver(<<"extra", "data_type">>, FewValues)
    \cup {DataFrame(r) : r \in SeqsUpTo(NormalizedRecords, MaxRows) \ {<<>>}}
    \cup {[columns |-> NormalizedKeys \o <<"extra">>,
           rows |-> <<[c \in Range(NormalizedKeys) \cup {"extra"} |->
                         IF c = "extra" THEN StrV("a") ELSE r[c]]>>] :
            r \in NormalizedRecords}

InitSchema ==
  /\ today \in Todays
  /\ event = <<>>
  /\ pc = "call"
  /\ InitLocals
  /\ arg \in SchemaInputs
  /\ ret = NoFrame

ApplySchema ==
  /\ pc = "call"
  /\ ret' = enforce_schema(arg, SILVER_SCHEMA)
  /\ pc' = "done"
  /\ UNCHANGED <<today, event, idx, shows, initial_count, warnings, normalized_shows,
                 df, quality_metrics, partition, silver, cloudwatch,
                 processed_results, response, raised, arg>>

NextSchema == ApplySchema

SpecSchema == InitSchema /\ [][NextSchema]_vars

CanonicalFields ==
  <<"show_id", "title", "original_title", "popularity", "vote_average",
    "vote_count", "first_air_date", "genre_ids", "origin_country", "poster_path",
    "backdrop_path", "overview", "original_language", "ingestion_date", "data_type">>

\* C6: whatever the columns of its input, enforce_schema returns the 15
\* canonical columns in canonical order, the columns the input lacked filled
\* with null, no other column, and applying it again changes nothing.
C6_SchemaEnforced ==
  pc = "done" =>
    /\ ret.columns = CanonicalFields
    /\ Len(ret.rows) = Len(arg.rows)
    /\ \A i \in 1..Len(ret.rows) :
         /\ DOMAIN ret.rows[i] = Range(CanonicalFields)
         /\ \A c \in Range(CanonicalFields) \ Range(arg.columns) :
              ret.rows[i][c] = Null
    /\ enforce_schema(ret, SILVER_SCHEMA) = ret

C6_ExtraMissingAndCast ==
  /\ pc = "done"
  /\ "extra" \in Range(arg.columns)
  /\ "show_id" \in Range(arg.columns)
  /\ arg.columns # CanonicalFields \o <<"extra">>
  /\ \E i \in 1..Len(arg.rows) :
       \E c \in Range(arg.columns) \cap Range(CanonicalFields) :
         ret.rows[i][c] # arg.rows[i][c]

(***************************************************************************)
(* extract_data_type and extract_partition_date applied on their own to    *)
(* arbitrary keys and to keys of the form                                  *)
(* <prefix>shows/<category>/dt=<date>/<id>.json.                           *)
(***************************************************************************)
KeyAlphabet == {"shows", "/", "x", "-", "dt=", "2024-03-01"}

Prefixes ==
  {<<>>, <<"bronze", "/", "tmdb", "/">>, <<"x">>, <<"shows", "/", "x", "/">>,
   <<"shows", "/", "x">>, <<"dt=", "2023-12-31", "/">>}
Categories ==
  {<<"popular_", "shows">>, <<"trending_", "shows">>, <<"airing_today">>,
   <<"top", "-", "rated">>, <<"x">>}

PatternKey(prefix, category, date) ==
  prefix \o <<"shows", "/">> \o category \o <<"/", "dt=", date, "/", "x", ".json">>

KeyInputs ==
  {[key |-> k, pattern |-> FALSE, prefix |-> <<>>, category |-> <<>>, date |-> ""] :
     k \in SeqsUpTo(KeyAlphabet, MaxKeyLen)}
    \cup {[key |-> PatternKey(p, c, d), pattern |-> TRUE, prefix |-> p,
           category |-> c, date |-> d] :
            p \in Prefixes, c \in Categories, d \in DateTokens}

InitKey ==
  /\ today \in Todays
  /\ event = <<>>
  /\ pc = "call"
  /\ InitLocals
  /\ arg \in KeyInputs
  /\ ret = [category |-> "", date |-> ""]

ApplyResolver ==
  /\ pc = "call"
  /\ ret' = [category |-> extract_data_type(arg.key),
             date |-> extract_partition_date(arg.key)]
  /\ pc' = "done"
  /\ UNCHANGED <<today, event, idx, shows, initial_count, warnings, normalized_shows,
                 df, quality_metrics, partition, silver, cloudwatch,
                 processed_results, response, raised, arg>>

NextKey == ApplyResolver

SpecKey == InitKey /\ [][NextKey]_vars

\* The first "shows" "/" of the key, and the path segment after it.
Markers(key) == {i \in 1..(Len(key) - 1) : key[i] = "shows" /\ key[i + 1] = "/"}
FirstMarker(key) == CHOOSE i \in Markers(key) : \A k \in Markers(key) : i <= k
SegmentEnd(key, from) ==
  IF \E j \in from..Len(key) : key[j] = "/"
  THEN (CHOOSE j \in from..Len(key) :
          key[j] = "/" /\ \A k \in from..(j - 1) : key[k] # "/") - 1
  ELSE Len(key)
SegmentAfterMarker(key) ==
  SubSeq(key, FirstMarker(key) + 2, SegmentEnd(key, FirstMarker(key) + 2))
DateStarts(key) ==
  {i \in 1..(Len(key) - 1) : key[i] = "dt=" /\ key[i + 1] \in DateTokens}

WordSegment(key, i, j) ==
  /\ i \in 1..Len(key) /\ j \in (i + 3)..Len(key)
  /\ key[i] = "shows" /\ key[i + 1] = "/" /\ key[j] = "/"
  /\ \A k \in (i + 2)..(j - 1) : key[k] \in WordTokens
HasWordSegment(key, i) == \E j \in 1..Len(key) : WordSegment(key, i, j)

====
